---- MODULE Spec2Model ----
(***************************************************************************)
(* Heading-inference pipeline of pdf_extractor: the three iterations       *)
(* app/main1.py, app/main2.py and app/main3.py of the same pipeline        *)
(* (header/footer removal, multi-line merge, font size clustering, title   *)
(* detection, numbering analysis, heading assignment).                     *)
(*                                                                         *)
(* Representation.                                                         *)
(*  - A text is a TLA+ string; characters are strings of length one.       *)
(*  - A font size is an integer number of thousandths of a point, so that  *)
(*    round(x, 2) and round(x, 1) are real conversions.  Sizes are exact   *)
(*    decimals: the inputs drawn below avoid values that sit exactly on a  *)
(*    rounding tie or on a 0.2 / 0.3 comparison threshold, where the       *)
(*    binary floating point of the program may fall on either side.  The   *)
(*    one comparison that the inputs do bring to an exact tie, abs(s -     *)
(*    base) <= tolerance of the clusterer, is left open: tie_in holds the  *)
(*    bases for which it is true.                                          *)
(*  - A cluster mean is an exact rational [n, d] in lowest terms (n in     *)
(*    thousandths of a point); None is the rational with d = 0.            *)
(*  - Positions (x0, y0, h) are whole points.                              *)
(*  - Text elements are objects: heap[i] is the i-th TextElement built by  *)
(*    extract_text_elements, and every list of elements is a sequence of   *)
(*    indices into heap (Python lists hold references).                    *)
(*  - The statements at module level of main3.py, lines 107-114, use       *)
(*    names that are not defined there; the functions of main3 are         *)
(*    modelled as they are defined and called by its process_pdf_file.     *)
(***************************************************************************)
EXTENDS Integers, Sequences, FiniteSets, TLC

VARIABLES
    ver,            \* which iteration runs: 1 = main1.py, 2 = main2.py, 3 = main3.py
    page_count,     \* doc.page_count
    heap,           \* the TextElement objects of the document
    raw,            \* the list returned by extract_text_elements
    pc,             \* position in process_pdf_file
    text_els,       \* the current element list of process_pdf_file
    sizes,          \* cluster_font_sizes: the remaining sizes, descending
    clusters,       \* cluster_font_sizes: the cluster means so far
    absorbed,       \* cluster_font_sizes: the local list `cluster` of every iteration
    font_clusters,  \* the value returned by cluster_font_sizes
    title,          \* the detected title
    title_font_size,\* the value passed to assign_headings as title_font_size
    title_lines,    \* main2: the texts of the title lines
    levels,         \* assign_headings: the cluster -> level map
    queue,          \* assign_headings: the sorted elements still to visit
    last_level,     \* assign_headings: rank of the last accepted level
    outline,        \* assign_headings: the entries emitted so far
    emitted,        \* for every entry of outline, the element it came from
    result,         \* the value returned by process_pdf_file
    run,            \* how many times the stages have been started on raw
    first,          \* the result of the first run
    tie_in          \* the bases for which abs(s - base) <= tolerance holds when
                    \* the decimal difference equals the tolerance (the binary
                    \* floating point of the two sizes decides it)

vars == <<ver, page_count, heap, raw, pc, text_els, sizes, clusters, absorbed,
          font_clusters, title, title_font_size, title_lines, levels, queue,
          last_level, outline, emitted, result, run, first, tie_in>>

-----------------------------------------------------------------------------
(* Arithmetic *)

Abs(x) == IF x < 0 THEN -x ELSE x

RECURSIVE Gcd(_, _)
Gcd(a, b) == IF b = 0 THEN a ELSE Gcd(b, a % b)

\* The rational n/d in lowest terms, d > 0.
Rat(n, d) ==
    LET g == Gcd(Abs(n), d)
    IN  IF g = 0 THEN [n |-> 0, d |-> 1] ELSE [n |-> n \div g, d |-> d \div g]

None == [n |-> 0, d |-> 0]

\* Python truthiness of a float or None: None and 0.0 are false.
Truthy(r) == r.d # 0 /\ r.n # 0

\* |a - b| compared with t thousandths of a point, for rationals a and b.
DiffLt(a, b, t) == Abs(a.n * b.d - b.n * a.d) < t * a.d * b.d
DiffLe(a, b, t) == Abs(a.n * b.d - b.n * a.d) <= t * a.d * b.d
DiffGt(a, b, t) == ~DiffLe(a, b, t)
RatLt(a, b) == a.n * b.d < b.n * a.d
\* |a - b| < |c - e| for rationals.
CloserThan(a, b, c, e) ==
    Abs(a.n * b.d - b.n * a.d) * c.d * e.d < Abs(c.n * e.d - e.n * c.d) * a.d * b.d

RECURSIVE SetSum(_)
SetSum(S) == IF S = {} THEN 0 ELSE LET x == CHOOSE y \in S : TRUE
                                   IN  x + SetSum(S \ {x})

\* statistics.mean of a non-empty list of distinct sizes.
mean(S) == Rat(SetSum(S), Cardinality(S))

\* round(x, 2) and round(x, 1) on thousandths (round half to even).
RoundTo(x, unit) ==
    LET q == x \div unit
        r == x % unit
    IN  IF 2 * r < unit THEN q * unit
        ELSE IF 2 * r > unit THEN (q + 1) * unit
        ELSE IF q % 2 = 0 THEN q * unit ELSE (q + 1) * unit

SetMax(S) == CHOOSE x \in S : \A y \in S : y <= x

Range(s) == {s[i] : i \in 1..Len(s)}

RECURSIVE LexLt(_, _)
\* Tuple comparison of Python: a < b for tuples of numbers of the same length.
LexLt(a, b) ==
    IF a = <<>> THEN FALSE
    ELSE IF Head(a) # Head(b) THEN Head(a) < Head(b)
    ELSE LexLt(Tail(a), Tail(b))

RECURSIVE InsertSorted(_, _, _)
\* x put behind every element whose key is not greater: a stable insertion.
InsertSorted(x, s, key) ==
    IF s = <<>> THEN <<x>>
    ELSE IF LexLt(key[x], key[Head(s)]) THEN <<x>> \o s
    ELSE <<Head(s)>> \o InsertSorted(x, Tail(s), key)

\* A faulty sort that leaves the list in the order it has.
Unsorted(s, key) == s

RECURSIVE sorted(_, _)
\* sorted(s, key=...): stable; key maps an element to its tuple of numbers.
sorted(s, key) ==
    IF s = <<>> THEN <<>>
    ELSE InsertSorted(s[Len(s)], sorted(SubSeq(s, 1, Len(s) - 1), key), key)

RECURSIVE SortedDesc(_)
\* sorted(S, reverse=True) of a set of numbers.
SortedDesc(S) ==
    IF S = {} THEN <<>> ELSE <<SetMax(S)>> \o SortedDesc(S \ {SetMax(S)})

-----------------------------------------------------------------------------
(* Strings *)

\* s[i:i+1]: the character at position i (from 1), "" outside the text.
Ch(s, i) == IF 1 <= i /\ i <= Len(s) THEN SubSeq(s, i, i) ELSE ""
Digits == {"0", "1", "2", "3", "4", "5", "6", "7", "8", "9"}
Spaces == {" ", "\t", "\n"}
UpperChars == "ABCDEFGHIJKLMNOPQRSTUVWXYZ"
LowerChars == "abcdefghijklmnopqrstuvwxyz"
IsDigit(c) == c \in Digits
IsSpace(c) == c \in Spaces
IsUpper(c) == \E k \in 1..Len(UpperChars) : Ch(UpperChars, k) = c

LowerCh(c) ==
    IF IsUpper(c)
    THEN Ch(LowerChars, CHOOSE k \in 1..Len(UpperChars) : Ch(UpperChars, k) = c)
    ELSE c

RECURSIVE lower(_)
lower(s) == IF s = "" THEN "" ELSE LowerCh(Head(s)) \o lower(Tail(s))

RECURSIVE lstrip(_)
lstrip(s) == IF s # "" /\ IsSpace(Head(s)) THEN lstrip(Tail(s)) ELSE s

RECURSIVE rstrip(_)
rstrip(s) ==
    IF s # "" /\ IsSpace(Ch(s, Len(s))) THEN rstrip(SubSeq(s, 1, Len(s) - 1)) ELSE s

strip(s) == lstrip(rstrip(s))

\* sub in s
Contains(s, sub) ==
    \E i \in 1..(Len(s) - Len(sub) + 1) : SubSeq(s, i, i + Len(sub) - 1) = sub

endswith(s, suf) ==
    Len(s) >= Len(suf) /\ SubSeq(s, Len(s) - Len(suf) + 1, Len(s)) = suf

\* len(s.split())
WordCount(s) ==
    Cardinality({i \in 1..Len(s) :
                    ~IsSpace(Ch(s, i)) /\ (i = 1 \/ IsSpace(Ch(s, i - 1)))})

RECURSIVE RunLen(_, _, _)
\* How many characters of s from position i on are in the class C.
RunLen(s, i, C) ==
    IF i <= Len(s) /\ Ch(s, i) \in C THEN 1 + RunLen(s, i + 1, C) ELSE 0

RECURSIVE JoinWith(_, _)
\* sep.join(parts)
JoinWith(parts, sep) ==
    IF parts = <<>> THEN ""
    ELSE IF Len(parts) = 1 THEN parts[1]
    ELSE parts[1] \o sep \o JoinWith(Tail(parts), sep)

-----------------------------------------------------------------------------
(* Program constants.  Sizes in thousandths of a point, positions in points. *)

tolerance1 == 500
tolerance2 == 500
tolerance3 == 300
round_unit12 == 10
round_unit3 == 100
y_threshold_top == 50
y_threshold_bottom == 750
freq_num == 7
freq_den == 10
min_repeats3 == 3
short_text3 == 10
title_eps12 == 200
title_eps3 == 1000
title_top2 == 250
title_first3 == 5
page_width == 595
exclude1 == 300
exclude2 == 300
exclude3 == 500
match2 == 300
match3 == 1000
max_words2 == 12
merge_size2 == 200
merge_x2 == 2
merge_gap2 == 15

-----------------------------------------------------------------------------
(* Numbering Analyzer *)

RECURSIVE GroupFrom(_, _, _)
\* The greedy (\.\d+){0,2} from position pos on, after a group of segs segments:
\* [segs, end], end being the position after the group.
GroupFrom(t, pos, segs) ==
    IF segs < 3 /\ Ch(t, pos) = "." /\ IsDigit(Ch(t, pos + 1))
    THEN GroupFrom(t, pos + 1 + RunLen(t, pos + 1, Digits), segs + 1)
    ELSE [segs |-> segs, end |-> pos]

\* The greedy match of (\d+(\.\d+){0,2}) at the start of t; segs = 0 when t does
\* not start with a digit.
NumberGroup(t) ==
    IF IsDigit(Ch(t, 1)) THEN GroupFrom(t, 1 + RunLen(t, 1, Digits), 1)
    ELSE [segs |-> 0, end |-> 1]

\* if level > 3: level = 3
Cap3(level) == IF level > 3 THEN 3 ELSE level

\* main1: re.match(r'^(\d+(\.\d+){0,2})[ \t\-:]*', text); 0 stands for None.
find_numbering_level1(text) == Cap3(NumberGroup(strip(text)).segs)

\* Does one of [ \t\-:] follow the group g of t ?
Separated(t, g) ==
    IF g.segs > 0 /\ Ch(t, g.end) \in {" ", "\t", "-", ":"} THEN Cap3(g.segs) ELSE 0

SeparatedGroup(t) == Separated(t, NumberGroup(t))

\* main2: the same with [ \t\-:]+ : a separator must follow the group.  A shorter
\* group is followed by a digit or a period, never by a separator, so the greedy
\* group decides.
find_numbering_level2(text) == SeparatedGroup(strip(text))

RECURSIVE EndOfSegments(_, _, _)
\* The position after exactly k dot-separated digit runs that start at pos, 0 if
\* t does not hold them there.
EndOfSegments(t, pos, k) ==
    IF ~IsDigit(Ch(t, pos)) THEN 0
    ELSE IF k = 1 THEN pos + RunLen(t, pos, Digits)
    ELSE IF Ch(t, pos + RunLen(t, pos, Digits)) = "."
    THEN EndOfSegments(t, pos + RunLen(t, pos, Digits) + 1, k - 1)
    ELSE 0

\* \.?\s+ at position end (end = 0: the segments did not match).
PeriodSpace(t, end) ==
    /\ end > 0
    /\ \/ IsSpace(Ch(t, end))
       \/ Ch(t, end) = "." /\ IsSpace(Ch(t, end + 1))

\* main3: does r'^(\d+(\.\d+){k-1})\.?\s+' match t ?
Pattern3(t, k) == PeriodSpace(t, EndOfSegments(t, 1, k))

\* The patterns are tried in order, the first that matches gives the level.
FirstPattern3(t) ==
    IF Pattern3(t, 1) THEN 1
    ELSE IF Pattern3(t, 2) THEN 2
    ELSE IF Pattern3(t, 3) THEN 3
    ELSE 0

find_numbering_level3(text) == FirstPattern3(strip(text))

find_numbering_level(v, text) ==
    IF v = 1 THEN find_numbering_level1(text)
    ELSE IF v = 2 THEN find_numbering_level2(text)
    ELSE find_numbering_level3(text)

\* re.match(r'^\d+$', text) for a text without line breaks.
AllDigits(text) == text # "" /\ RunLen(text, 1, Digits) = Len(text)

\* main3 is_heading_like, for the stripped text, its lower case and the length
\* d1 of its leading digits.
HeadingLike(text, low, d1) ==
    IF Len(text) < 3 THEN FALSE
    \* the copyright sign is no character of the texts drawn below
    ELSE IF \/ AllDigits(text)
            \/ Contains(low, "version")
            \/ Contains(low, "page")
            \/ Contains(low, "copyright")
         THEN FALSE
    \* re.match(r'^\d+[\.\d\s]*[A-Z]', text)
    ELSE IF d1 > 0 /\ IsUpper(Ch(text, d1 + 1 + RunLen(text, d1 + 1,
                                          Digits \cup Spaces \cup {"."})))
         THEN TRUE
    ELSE IF \E w \in {"introduction", "overview", "content", "references",
                      "acknowledgements", "history", "outcomes", "requirements",
                      "structure", "audience", "objectives"} : Contains(low, w)
         THEN TRUE
    ELSE IF IsUpper(Ch(text, 1)) /\ 5 <= Len(text) /\ Len(text) <= 100 THEN TRUE
    ELSE FALSE

HeadingLikeStripped(text) == HeadingLike(text, lower(text), RunLen(text, 1, Digits))

is_heading_like(text) == HeadingLikeStripped(strip(text))

-----------------------------------------------------------------------------
(* Text elements *)

\* extract_text_elements reads bold and italic off the font name.
is_bold(font_name) ==
    Contains(font_name, "Bold") \/ Contains(lower(font_name), "bold")
is_italic(font_name) ==
    \/ Contains(font_name, "Italic")
    \/ Contains(font_name, "Oblique")
    \/ Contains(lower(font_name), "italic")

\* TextElement(...): the constructor strips the text.
TextElement(text, font_size, font_name, bold, italic, x0, y0, h, page_num, block_no, line_no) ==
    [text |-> strip(text), font_size |-> font_size, font_name |-> font_name,
     is_bold |-> bold, is_italic |-> italic,
     x0 |-> x0, y0 |-> y0, h |-> h, page_num |-> page_num,
     block_no |-> block_no, line_no |-> line_no]

\* How many elements of the list els satisfy: text = txt and y0 in the given band.
TopCount(els, txt) ==
    Cardinality({k \in 1..Len(els) :
                    heap[els[k]].y0 < y_threshold_top /\ heap[els[k]].text = txt})
BottomCount(els, txt) ==
    Cardinality({k \in 1..Len(els) :
                    heap[els[k]].y0 > y_threshold_bottom /\ heap[els[k]].text = txt})

\* cnt > 0.7 * num_pages
OverFreq(cnt, num_pages) == freq_den * cnt > freq_num * num_pages

PagesOf(els) == {heap[i].page_num : i \in Range(els)}

\* main1 and main2 remove_header_footer, given the page number they divide by.
RemoveByBand(els, num_pages) ==
    SelectSeq(els, LAMBDA i :
        /\ ~(heap[i].y0 < y_threshold_top
             /\ OverFreq(TopCount(els, heap[i].text), num_pages))
        /\ ~(heap[i].y0 > y_threshold_bottom
             /\ OverFreq(BottomCount(els, heap[i].text), num_pages)))

\* main1: num_pages is the number of distinct pages that hold an element.
remove_header_footer1(els) == RemoveByBand(els, Cardinality(PagesOf(els)))

\* main2: num_pages = max(el.page_num ...), which raises ValueError on an empty
\* list; the caller of this operator tests for that.
remove_header_footer2(els) == RemoveByBand(els, SetMax(PagesOf(els)))

\* re.match(r'.*\d+\s+of\s+\d+.*', low)
HasNofM(low) ==
    \E i \in 1..Len(low) :
        LET d == RunLen(low, i, Digits)
            w1 == RunLen(low, i + d, Spaces)
            j == i + d + w1
            w2 == RunLen(low, j + 2, Spaces)
        IN  /\ d > 0 /\ w1 > 0
            /\ Ch(low, j) = "o" /\ Ch(low, j + 1) = "f"
            /\ w2 > 0 /\ IsDigit(Ch(low, j + 2 + w2))

\* main3: a text is repetitive when it occurs at least max(3, 0.5 * num_pages)
\* times anywhere and looks like header/footer content.
Repetitive3(els, text) ==
    LET count == Cardinality({k \in 1..Len(els) : heap[els[k]].text = text})
        num_pages == Cardinality(PagesOf(els))
        low == lower(text)
    IN  /\ count >= min_repeats3
        /\ 2 * count >= num_pages
        \* the copyright sign is no character of the texts drawn below
        /\ \/ \E keyword \in {"page", "version", "copyright"} : Contains(low, keyword)
           \/ HasNofM(low)
           \/ Len(text) < short_text3

remove_header_footer3(els) ==
    SelectSeq(els, LAMBDA i : ~Repetitive3(els, heap[i].text))

-----------------------------------------------------------------------------
(* Title Detector *)

FirstPage(els) == SelectSeq(els, LAMBDA i : heap[i].page_num = 1)

MaxFontSize(els) == SetMax({heap[i].font_size : i \in Range(els)})

\* The candidates: the elements of page 1 within eps of the largest size there.
Candidates(els, eps) ==
    SelectSeq(FirstPage(els), LAMBDA i :
        Abs(heap[i].font_size - MaxFontSize(FirstPage(els))) < eps)

\* main1: score = y0 + abs(x0 - page_width / 2) * 0.5, here times four.
Score1(i) == 4 * heap[i].y0 + Abs(2 * heap[i].x0 - page_width)

\* main1: candidates.sort(key=score)
candidates1(els) ==
    sorted(Candidates(els, title_eps12), [i \in DOMAIN heap |-> <<Score1(i)>>])

detect_title1(els) ==
    IF FirstPage(els) = <<>> THEN "" ELSE heap[candidates1(els)[1]].text

Texts(els) == [k \in 1..Len(els) |-> heap[els[k]].text]

\* main2: the candidates above y0 = 250, from the top down.
top_candidates2(els) ==
    sorted(SelectSeq(Candidates(els, title_eps12), LAMBDA i : heap[i].y0 < title_top2),
           [i \in DOMAIN heap |-> <<heap[i].y0>>])

\* main2: returns the title and max_size (None without page-1 elements); the
\* single-page fallback returns the same pair.
detect_title2(els, single_page) ==
    IF FirstPage(els) = <<>> THEN [title |-> "", size |-> None]
    ELSE [title |-> strip(JoinWith(Texts(top_candidates2(els)), " ")),
          size |-> Rat(MaxFontSize(FirstPage(els)), 1)]

\* main3: is the candidate left out of the title parts ?
Excluded3(text) ==
    \/ AllDigits(text)
    \/ Contains(lower(text), "copyright")
    \/ Contains(lower(text), "page")

\* main3: title_candidates.sort(key=lambda x: x.y0)
title_candidates3(els) ==
    sorted(Candidates(els, title_eps3), [i \in DOMAIN heap |-> <<heap[i].y0>>])

\* main3: title_candidates[:5]
FirstFew(s) == SubSeq(s, 1, IF Len(s) < title_first3 THEN Len(s) ELSE title_first3)

\* main3: the elements whose texts are appended to title_parts.
title_parts3(els) ==
    SelectSeq(FirstFew(title_candidates3(els)), LAMBDA i :
        ~Excluded3(heap[i].text) /\ Len(heap[i].text) > 2)

detect_title3(els) ==
    IF FirstPage(els) = <<>> THEN ""
    ELSE IF title_parts3(els) # <<>> THEN JoinWith(Texts(title_parts3(els)), "  ")
    ELSE heap[title_candidates3(els)[1]].text

-----------------------------------------------------------------------------
(* Line Builder, stricter variant: main2 merge_multiline_blocks *)

\* Is the element el merged into the buffered element buf ?  (h is the heap.)
close_same(h, buf, el) ==
    /\ h[el].page_num = h[buf].page_num
    /\ h[el].block_no = h[buf].block_no
    /\ Abs(h[el].font_size - h[buf].font_size) < merge_size2
    /\ h[el].font_name = h[buf].font_name
    /\ h[el].is_bold = h[buf].is_bold
    /\ h[el].is_italic = h[buf].is_italic
    /\ Abs(h[el].x0 - h[buf].x0) < merge_x2
    /\ 0 < h[el].y0 - (h[buf].y0 + h[buf].h)
    /\ h[el].y0 - (h[buf].y0 + h[buf].h) < merge_gap2

\* buf.text += " " + el.text; buf.h += el.h: the buffered object itself changes.
Absorb(h, buf, el) ==
    [h EXCEPT ![buf].text = @ \o " " \o h[el].text, ![buf].h = @ + h[el].h]

RECURSIVE MergeLoop(_, _, _, _)
\* The for loop from the second element on: the heap and the list merged.
MergeLoop(h, buf, rest, merged) ==
    IF rest = <<>> THEN [heap |-> h, merged |-> Append(merged, buf)]
    ELSE IF close_same(h, buf, Head(rest))
         THEN MergeLoop(Absorb(h, buf, Head(rest)), buf, Tail(rest), merged)
         ELSE MergeLoop(h, Head(rest), Tail(rest), Append(merged, buf))

merge_multiline_blocks(h, els) ==
    LET s == sorted(els, [i \in DOMAIN h |->
                             <<h[i].page_num, h[i].block_no, h[i].line_no>>])
    IN  IF s = <<>> THEN [heap |-> h, merged |-> <<>>]
        ELSE MergeLoop(h, Head(s), Tail(s), <<>>)

-----------------------------------------------------------------------------
(* Font Size Clusterer *)

Tolerance(v) == IF v = 1 THEN tolerance1 ELSE IF v = 2 THEN tolerance2 ELSE tolerance3

\* round(el.font_size, 2) in main1 and main2, round(el.font_size, 1) in main3.
Rounded(v, fs) == RoundTo(fs, IF v = 3 THEN round_unit3 ELSE round_unit12)

\* The set of rounded sizes; main2 leaves out the elements whose size is 0.
SizeSet(v, els) ==
    {Rounded(v, heap[i].font_size) :
        i \in {j \in Range(els) : v = 2 => heap[j].font_size # 0}}

\* cluster = [s for s in sizes if abs(s - base) <= tolerance]
ClusterAt(szs, base, tol) ==
    {x \in Range(szs) :
        \/ x = base
        \/ Abs(x - base) < tol
        \/ Abs(x - base) = tol /\ base \in tie_in}

\* A faulty removal that takes only the base out of sizes.
RemainingDropBase(szs, cluster) == Tail(szs)

\* A faulty removal that leaves the base in sizes.
RemainingKeepBase(szs, cluster) ==
    SelectSeq(szs, LAMBDA x : x \notin cluster \/ x = szs[1])

\* for s in cluster: sizes.remove(s)
Remaining(szs, cluster) == SelectSeq(szs, LAMBDA x : x \notin cluster)

RECURSIVE SortRatsDesc(_)
\* sorted(clusters, reverse=True) of a list of rationals.
SortRatsDesc(cs) ==
    IF cs = <<>> THEN <<>>
    ELSE LET k == CHOOSE k \in 1..Len(cs) :
                     /\ \A j \in 1..Len(cs) : ~RatLt(cs[k], cs[j])
                     /\ \A j \in 1..(k - 1) : RatLt(cs[j], cs[k])
         IN  <<cs[k]>> \o SortRatsDesc(SubSeq(cs, 1, k - 1) \o SubSeq(cs, k + 1, Len(cs)))

-----------------------------------------------------------------------------
(* Heading Assigner *)

Rank(level) == IF level = "H1" THEN 1 ELSE IF level = "H2" THEN 2 ELSE 3
Tag(k) == IF k = 1 THEN "H1" ELSE IF k = 2 THEN "H2" ELSE "H3"

\* Is the cluster fs left out of the heading sizes because of the title size t ?
TitleExcluded(v, fs, t) ==
    IF v = 1 THEN ~DiffGt(fs, t, exclude1)
    ELSE IF v = 2 THEN Truthy(t) /\ DiffLt(fs, t, exclude2)
    ELSE ~DiffGt(fs, t, exclude3)

heading_font_sizes(v, fcs, t) ==
    LET kept == SelectSeq(fcs, LAMBDA fs : ~TitleExcluded(v, fs, t))
    IN  IF v = 2 THEN kept ELSE SortRatsDesc(kept)

\* The cluster -> level map, in insertion order: main1 and main2 map the first
\* three heading sizes, main3 maps every one (the third and later to H3).
LevelMap(v, fcs, t) ==
    LET hs == heading_font_sizes(v, fcs, t)
        n == IF v = 3 \/ Len(hs) < 3 THEN Len(hs) ELSE 3
    IN  [k \in 1..n |-> [size |-> hs[k], level |-> Tag(k)]]

\* The first index of cs whose distance to the size fs is the smallest.
Closest(cs, fs) ==
    CHOOSE k \in 1..Len(cs) :
        /\ \A j \in 1..Len(cs) : ~CloserThan(cs[j], Rat(fs, 1), cs[k], Rat(fs, 1))
        /\ \A j \in 1..(k - 1) : CloserThan(cs[k], Rat(fs, 1), cs[j], Rat(fs, 1))

MapSizes(lv) == [k \in 1..Len(lv) |-> lv[k].size]
InMap(lv, c) == \E k \in 1..Len(lv) : lv[k].size = c
LevelOf(lv, c) == lv[CHOOSE k \in 1..Len(lv) : lv[k].size = c].level

\* The level after the numbering override: num_level is what
\* find_numbering_level returned (0 for None).
Overridden(v, level, num_level) ==
    IF num_level = 1 THEN "H1"
    ELSE IF num_level = 2 THEN "H2"
    ELSE IF num_level = 3 \/ (v # 2 /\ num_level >= 3) THEN "H3"
    ELSE level

\* A faulty assigner that keeps the level got from the font size.
NoOverride(v, level, text) == level

Override(v, level, text) == Overridden(v, level, find_numbering_level(v, text))

Skip(last) == [emit |-> FALSE, level |-> "", page |-> 0, last |-> last]

Emit(level, page, last) == [emit |-> TRUE, level |-> level, page |-> page, last |-> last]

\* A faulty assigner that does not skip page 1.
TitlePageNever(el) == FALSE

\* main1 and main3: "Skip page 1 elements (title page)".
TitlePage(el) == el.page_num = 1

\* main1, from the structural validation on: last_heading_level is set before
\* the trailing-period test.
Finish1(el, level) ==
    IF endswith(el.text, ".") THEN Skip(Rank(level))
    ELSE Emit(level, el.page_num, Rank(level))

\* main1, from `if closest_cluster not in font_size_to_level` on.
Level1(el, lv, last, closest_cluster) ==
    IF ~InMap(lv, closest_cluster) THEN Skip(last)
    ELSE Finish1(el, Override(1, LevelOf(lv, closest_cluster), el.text))

\* One pass of the for loop of main1 assign_headings over the element el.
assign_step1(el, fcs, lv, last) ==
    IF TitlePage(el) THEN Skip(last)
    ELSE IF Len(el.text) < 2 THEN Skip(last)
    ELSE IF fcs = <<>> THEN Skip(last)
    ELSE Level1(el, lv, last, fcs[Closest(fcs, el.font_size)])

\* main2: the logical page of an element.
LogicalPage(el, page_offset, is_single_page) ==
    IF is_single_page THEN 0 ELSE (el.page_num - 1) - page_offset

\* A faulty assigner without the structural guard.
Finish2NoGuard(el, level, last, logical_page) ==
    IF endswith(rstrip(el.text), ".") THEN Skip(last)
    ELSE IF WordCount(el.text) > max_words2 THEN Skip(last)
    ELSE Emit(level, logical_page + 1, Rank(level))

\* main2, from the trailing-period test on.
Finish2(el, level, last, logical_page) ==
    IF endswith(rstrip(el.text), ".") THEN Skip(last)
    ELSE IF WordCount(el.text) > max_words2 THEN Skip(last)
    ELSE IF Rank(level) < last THEN Skip(last)
    ELSE Emit(level, logical_page + 1, Rank(level))

\* main2, from `if delta > 0.3` on; best is the entry of the map that is nearest.
Level2(el, best, last, logical_page) ==
    IF DiffGt(best.size, Rat(el.font_size, 1), match2) THEN Skip(last)
    ELSE Finish2(el, Override(2, best.level, el.text), last, logical_page)

\* main2, after the cover test.
Scan2(el, lv, last, tlines, logical_page) ==
    IF logical_page < 0 THEN Skip(last)
    ELSE IF el.page_num = 1 /\ tlines # <<>> /\ el.text \in Range(tlines)
         THEN Skip(last)
    ELSE IF Len(el.text) < 2 THEN Skip(last)
    ELSE IF lv = <<>> THEN Skip(last)
    ELSE Level2(el, lv[Closest(MapSizes(lv), el.font_size)], last, logical_page)

\* One pass of the for loop of main2 assign_headings.
assign_step2(el, lv, last, tlines, page_offset, is_single_page) ==
    Scan2(el, lv, last, tlines, LogicalPage(el, page_offset, is_single_page))

\* main3, from `if closest_font_size is None or min_diff > 1.0` on.
Level3(el, lv, last, closest) ==
    IF DiffGt(closest, Rat(el.font_size, 1), match3) THEN Skip(last)
    ELSE Emit(Override(3, IF InMap(lv, closest) THEN LevelOf(lv, closest) ELSE "H3",
                       el.text),
              el.page_num, last)

\* One pass of the for loop of main3 assign_headings.
assign_step3(el, hs, lv, last) ==
    IF TitlePage(el) THEN Skip(last)
    ELSE IF ~is_heading_like(el.text) THEN Skip(last)
    ELSE IF hs = <<>> THEN Skip(last)
    ELSE Level3(el, lv, last, hs[Closest(hs, el.font_size)])

-----------------------------------------------------------------------------
(* process_pdf_file: the stages in the order of each iteration *)

NoResult == [returned |-> FALSE, title |-> "", outline |-> <<>>]

FirstStage(v) == IF v = 3 THEN "title" ELSE "remove"
AfterRemove(v) == IF v = 1 THEN "title" ELSE IF v = 2 THEN "merge" ELSE "cluster"
AfterTitle(v) == IF v = 1 THEN "cluster" ELSE IF v = 2 THEN "assign" ELSE "remove"
AfterCluster(v) == IF v = 2 THEN "title" ELSE "assign"

single_page == page_count = 1

\* The state in which process_pdf_file of iteration v has extracted the elements
\* of the document doc = [els, page_count].
Start(v, doc, tie) ==
    /\ ver = v
    /\ tie_in = tie
    /\ page_count = doc.page_count
    /\ heap = doc.els
    /\ raw = [k \in 1..Len(doc.els) |-> k]
    /\ text_els = [k \in 1..Len(doc.els) |-> k]
    /\ pc = FirstStage(v)
    /\ sizes = <<>> /\ clusters = <<>> /\ absorbed = <<>> /\ font_clusters = <<>>
    /\ title = "" /\ title_font_size = None /\ title_lines = <<>>
    /\ levels = <<>> /\ queue = <<>> /\ last_level = 0
    /\ outline = <<>> /\ emitted = <<>>
    /\ result = NoResult /\ run = 1 /\ first = NoResult

\* text_els = remove_header_footer(text_els); in main2 the call raises on an
\* empty list and process_pdf_file ends with the exception.
RemoveHeaderFooter ==
    /\ pc = "remove"
    /\ IF ver = 2 /\ text_els = <<>>
       THEN /\ pc' = "raised"
            /\ UNCHANGED text_els
       ELSE /\ text_els' = (IF ver = 1 THEN remove_header_footer1(text_els)
                            ELSE IF ver = 2 THEN remove_header_footer2(text_els)
                            ELSE remove_header_footer3(text_els))
            /\ pc' = AfterRemove(ver)
    /\ UNCHANGED <<ver, page_count, heap, raw, sizes, clusters, absorbed,
                   font_clusters, title, title_font_size, title_lines, levels,
                   queue, last_level, outline, emitted, result, run, first, tie_in>>

\* main2: elements_merged = merge_multiline_blocks(cleaned)
MergeMultiline ==
    /\ pc = "merge"
    /\ LET m == merge_multiline_blocks(heap, text_els)
       IN  /\ heap' = m.heap
           /\ text_els' = m.merged
    /\ pc' = "cluster"
    /\ UNCHANGED <<ver, page_count, raw, sizes, clusters, absorbed, font_clusters,
                   title, title_font_size, title_lines, levels, queue, last_level,
                   outline, emitted, result, run, first, tie_in>>

\* main2: title, title_size = detect_title(...) and the title_lines computed
\* from title_size.
Detected2(d) ==
    /\ title' = d.title
    /\ title_font_size' = d.size
    /\ title_lines' =
          IF Truthy(d.size)
          THEN Texts(SelectSeq(text_els, LAMBDA i :
                   /\ DiffLt(Rat(heap[i].font_size, 1), d.size, title_eps12)
                   /\ heap[i].page_num = 1))
          ELSE <<>>

\* title = detect_title(...)
DetectTitle ==
    /\ pc = "title"
    /\ IF ver = 1
       THEN /\ title' = detect_title1(text_els)
            /\ UNCHANGED <<title_font_size, title_lines>>
       ELSE IF ver = 2
       THEN Detected2(detect_title2(text_els, single_page))
       ELSE /\ title' = detect_title3(text_els)
            /\ UNCHANGED <<title_font_size, title_lines>>
    /\ pc' = AfterTitle(ver)
    /\ UNCHANGED <<ver, page_count, heap, raw, text_els, sizes, clusters, absorbed,
                   font_clusters, levels, queue, last_level, outline, emitted,
                   result, run, first, tie_in>>

\* cluster_font_sizes, up to the loop: sizes = sorted(set(...), reverse=True)
ClusterBegin ==
    /\ pc = "cluster"
    /\ sizes' = SortedDesc(SizeSet(ver, text_els))
    /\ clusters' = <<>>
    /\ absorbed' = <<>>
    /\ pc' = "cluster_loop"
    /\ UNCHANGED <<ver, page_count, heap, raw, text_els, font_clusters, title,
                   title_font_size, title_lines, levels, queue, last_level, outline,
                   emitted, result, run, first, tie_in>>

\* One iteration of `while sizes`.
ClusterIter ==
    /\ pc = "cluster_loop"
    /\ sizes # <<>>
    /\ LET base == sizes[1]
           cluster == ClusterAt(sizes, base, Tolerance(ver))
       IN  /\ clusters' = Append(clusters, mean(cluster))
           /\ absorbed' = Append(absorbed, cluster)
           /\ sizes' = Remaining(sizes, cluster)
    /\ UNCHANGED <<ver, page_count, heap, raw, pc, text_els, font_clusters, title,
                   title_font_size, title_lines, levels, queue, last_level, outline,
                   emitted, result, run, first, tie_in>>

\* The loop has ended: the clusters are sorted and returned.
ClusterReturn ==
    /\ pc = "cluster_loop"
    /\ sizes = <<>>
    /\ font_clusters' = SortRatsDesc(clusters)
    /\ pc' = AfterCluster(ver)
    /\ UNCHANGED <<ver, page_count, heap, raw, text_els, sizes, clusters, absorbed,
                   title, title_font_size, title_lines, levels, queue, last_level,
                   outline, emitted, result, run, first, tie_in>>

\* The title_font_size argument of assign_headings: main1 passes the largest
\* cluster, main2 the title_size of detect_title, main3 the largest size left on
\* page 1.
TitleSizeArg ==
    IF ver = 1
    THEN (IF font_clusters # <<>> THEN SortRatsDesc(font_clusters)[1] ELSE Rat(0, 1))
    ELSE IF ver = 2 THEN title_font_size
    ELSE (IF FirstPage(text_els) # <<>>
          THEN Rat(MaxFontSize(FirstPage(text_els)), 1) ELSE Rat(0, 1))

\* assign_headings, up to the loop: the level map and the sorted elements.
AssignBegin ==
    /\ pc = "assign"
    /\ title_font_size' = TitleSizeArg
    /\ levels' = LevelMap(ver, font_clusters, TitleSizeArg)
    /\ queue' = sorted(text_els, [i \in DOMAIN heap |->
                                     <<heap[i].page_num, heap[i].y0, heap[i].x0>>])
    /\ last_level' = 0
    /\ outline' = <<>>
    /\ emitted' = <<>>
    /\ pc' = "assign_loop"
    /\ UNCHANGED <<ver, page_count, heap, raw, text_els, sizes, clusters, absorbed,
                   font_clusters, title, title_lines, result, run, first, tie_in>>

AssignStep(el) ==
    IF ver = 1 THEN assign_step1(el, font_clusters, levels, last_level)
    ELSE IF ver = 2
    THEN assign_step2(el, levels, last_level, title_lines,
                      IF single_page THEN 0 ELSE 1, single_page)
    ELSE assign_step3(el, MapSizes(levels), levels, last_level)

\* The effect of one pass whose decision is d on the element i.
Decided(i, d) ==
    /\ last_level' = d.last
    /\ outline' = IF d.emit
                  THEN Append(outline, [level |-> d.level, text |-> heap[i].text,
                                        page |-> d.page])
                  ELSE outline
    /\ emitted' = IF d.emit THEN Append(emitted, i) ELSE emitted

\* One pass of `for el in text_elements` of assign_headings.
AssignIter ==
    /\ pc = "assign_loop"
    /\ queue # <<>>
    /\ Decided(Head(queue), AssignStep(heap[Head(queue)]))
    /\ queue' = Tail(queue)
    /\ UNCHANGED <<ver, page_count, heap, raw, pc, text_els, sizes, clusters,
                   absorbed, font_clusters, title, title_font_size, title_lines,
                   levels, result, run, first, tie_in>>

\* The loop has ended: process_pdf_file returns {"title", "outline"}.
Return ==
    /\ pc = "assign_loop"
    /\ queue = <<>>
    /\ result' = [returned |-> TRUE, title |-> title, outline |-> outline]
    /\ first' = IF run = 1
                THEN [returned |-> TRUE, title |-> title, outline |-> outline]
                ELSE first
    /\ pc' = "done"
    /\ UNCHANGED <<ver, page_count, heap, raw, text_els, sizes, clusters, absorbed,
                   font_clusters, title, title_font_size, title_lines, levels, queue,
                   last_level, outline, emitted, run, tie_in>>

\* The stages are applied a second time to the same list of element objects.
Rerun ==
    /\ pc = "done"
    /\ run = 1
    /\ run' = 2
    /\ text_els' = raw
    /\ pc' = FirstStage(ver)
    /\ sizes' = <<>> /\ clusters' = <<>> /\ absorbed' = <<>> /\ font_clusters' = <<>>
    /\ title' = "" /\ title_font_size' = None /\ title_lines' = <<>>
    /\ levels' = <<>> /\ queue' = <<>> /\ last_level' = 0
    /\ outline' = <<>> /\ emitted' = <<>>
    /\ result' = NoResult
    /\ UNCHANGED <<ver, page_count, heap, raw, first, tie_in>>

Next ==
    \/ RemoveHeaderFooter
    \/ MergeMultiline
    \/ DetectTitle
    \/ ClusterBegin
    \/ ClusterIter
    \/ ClusterReturn
    \/ AssignBegin
    \/ AssignIter
    \/ Return

\* The same, with the stages applied twice to one list of elements.
NextTwice ==
    \/ RemoveHeaderFooter
    \/ MergeMultiline
    \/ DetectTitle
    \/ ClusterBegin
    \/ ClusterIter
    \/ ClusterReturn
    \/ AssignBegin
    \/ AssignIter
    \/ Return
    \/ Rerun

-----------------------------------------------------------------------------------------------------------------------------------------------------
(* Documents *)

\* The style flags of the font of the lines below.
HelveticaBold == is_bold("Helvetica")
HelveticaItalic == is_italic("Helvetica")

\* A line as extract_text_elements builds it: left margin 72, height 12,
\* one block per page.
Line(text, font_size, y0, page_num, line_no) ==
    TextElement(text, font_size, "Helvetica", HelveticaBold, HelveticaItalic,
                72, y0, 12, page_num, 0, line_no)

MaxElems == 2
MaxSizes == 3
Pages == {1, 2}
GenTexts == {"2.1 Scope", "Overview", "Body text."}
GenSizes == {24000, 16000, 14000}
Gaps == {13, 40}

RECURSIVE ListsUpTo(_, _)
\* The lists of at most n members of the set K.
ListsUpTo(n, K) ==
    IF n = 0 THEN {<<>>}
    ELSE LET P == ListsUpTo(n - 1, K)
         IN  P \cup {Append(p, x) : p \in {q \in P : Len(q) = n - 1}, x \in K}

\* The extraction visits the pages in order.
PageOrdered(p) == \A k \in 1..(Len(p) - 1) : p[k].page <= p[k + 1].page

LastPage(p) == IF p = <<>> THEN 1 ELSE p[Len(p)].page

\* The page-ordered lists of at most MaxElems lines of the kinds K, each with a
\* gap and a page count that is at least the page of the last line.
Layouts(K, gaps) ==
    {y \in ListsUpTo(MaxElems, K) \X gaps \X Pages :
        PageOrdered(y[1]) /\ LastPage(y[1]) <= y[3]}

\* The document of the lines p: line k starts gap points below line k - 1.
GenDoc(p, gap, pages) ==
    [els |-> [k \in 1..Len(p) |->
                 Line(p[k].text, p[k].size, 100 + gap * (k - 1), p[k].page, k - 1)],
     page_count |-> pages]

GenDocs(gaps) ==
    {GenDoc(x[1], x[2], x[3]) :
        x \in Layouts([page : Pages, text : GenTexts, size : GenSizes], gaps)}

Init == \E v \in 1..3 : \E doc \in GenDocs({40}) : Start(v, doc, {})
Spec == Init /\ [][Next]_vars

InitTwice == \E v \in 1..3 : \E doc \in GenDocs(Gaps) : Start(v, doc, {})
SpecTwice == InitTwice /\ [][NextTwice]_vars

\* Font sizes around the tolerances 0.5 and 0.3, with two that round(., 1)
\* brings together and round(., 2) keeps apart.
ClusterSizes == {12000, 11700, 11500, 11460, 11430, 11000, 10500}

\* A two-page document with one heading line on page 2 for each size of S.
ClusterDoc(S) ==
    [els |-> [k \in 1..Cardinality(S) |->
                 Line("Overview", SortedDesc(S)[k], 100 + 40 * (k - 1), 2, k - 1)],
     page_count |-> 2]

\* The rounded sizes of S that have another one exactly the tolerance below.
TieBases(v, S) ==
    {Rounded(v, b) : b \in {c \in S : \E x \in S : Rounded(v, c) - Rounded(v, x) = Tolerance(v)}}

InitCluster ==
    \E v \in 1..3 :
        \E S \in {T \in SUBSET ClusterSizes : Cardinality(T) <= MaxSizes} :
            \E tie \in SUBSET TieBases(v, S) : Start(v, ClusterDoc(S), tie)
SpecCluster == InitCluster /\ [][Next]_vars

\* cluster_font_sizes runs its statements one after the other without waiting:
\* an iteration of the loop or the return that can be taken is taken.
SpecClusterFair == SpecCluster /\ WF_vars(ClusterBegin \/ ClusterIter \/ ClusterReturn)

RECURSIVE Concat(_, _)
\* f[1] \o ... \o f[n]
Concat(f, n) == IF n = 0 THEN <<>> ELSE Concat(f, n - 1) \o f[n]

\* A ten-page document: "Confidential Draft" at the given size in the top margin
\* of the pages of P, a heading on page 3 and, with_title, a title on page 1.
HeaderDoc(P, size, with_title) ==
    [els |-> Concat([p \in 1..10 |->
                 (IF p \in P
                  THEN <<Line("Confidential Draft", size, 30, p, 0)>> ELSE <<>>)
                 \o (IF p = 1 /\ with_title
                     THEN <<Line("Project Plan", 20000, 100, p, 1)>> ELSE <<>>)
                 \o (IF p = 3
                     THEN <<Line("Overview", 16000, 100, p, 1)>> ELSE <<>>)], 10),
     page_count |-> 10]

HeaderDocs ==
    {HeaderDoc(P, size, with_title) :
        P \in {Q \in SUBSET (1..10) : Cardinality(Q) = 8},
        size \in {9000, 12000, 30000}, with_title \in BOOLEAN}

\* Short documents whose lines sit in the top margin, in the body or in the
\* bottom margin.
MarginDoc(p, pages) ==
    [els |-> [k \in 1..Len(p) |-> Line(p[k].text, 16000, p[k].y, p[k].page, k - 1)],
     page_count |-> pages]

MarginDocs ==
    {MarginDoc(x[1], x[3]) :
        x \in Layouts([page : Pages, text : {"Overview"}, y : {30, 100, 760}], {0})}

InitHeader ==
    \E v \in 1..3 : \E doc \in HeaderDocs \cup MarginDocs : Start(v, doc, {})
SpecHeader == InitHeader /\ [][Next]_vars

\* "Project Plan" at 28 on page 1; on page 2 "1. Introduction" at 16, a
\* paragraph line at 11 and "1.1 Background" at 14.
TwoPageDoc(paragraph, y) ==
    [els |-> <<Line("Project Plan", 28000, y, 1, 0),
               Line("1. Introduction", 16000, 100, 2, 0),
               Line(paragraph, 11000, 140, 2, 1),
               Line("1.1 Background", 14000, 180, 2, 2)>>,
     page_count |-> 2]

TwoPageDocs ==
    {TwoPageDoc(paragraph, y) :
        paragraph \in {"This plan describes the work.", "see the plan below."},
        y \in {100, 300}}

\* One page: "Annual Report 2024" at 24 near the top and body lines at 11.
SinglePageDoc(body, y) ==
    [els |-> <<Line("Annual Report 2024", 24000, y, 1, 0)>>
             \o [k \in 1..Len(body) |-> Line(body[k], 11000, y + 40 * k, 1, k)],
     page_count |-> 1]

SinglePageDocs ==
    {SinglePageDoc(body, y) :
        body \in ListsUpTo(MaxElems, {"Revenue grew this year.", "Revenue by region"}),
        y \in {30, 100}}

InitScenario ==
    \E v \in 1..3 : \E doc \in TwoPageDocs \cup SinglePageDocs : Start(v, doc, {})
SpecScenario == InitScenario /\ [][Next]_vars

\* Page 1 holds lines in the largest sizes, some of which detect_title of main3
\* leaves out of the title parts; page 2 holds one heading.
CoverDoc(p) ==
    [els |-> [k \in 1..Len(p) |->
                 Line(p[k].text, p[k].size, 100 + 40 * (k - 1), 1, k - 1)]
             \o <<Line("Overview", 16000, 100, 2, 0)>>,
     page_count |-> 2]

CoverDocs ==
    {CoverDoc(p) :
        p \in ListsUpTo(MaxElems,
                        [text : {"2024", "Page 1", "Copyright Notice", "Project Plan"},
                         size : {24000, 23200}])}

\* A title on page 1 and heading lines on pages 2 and 3 that the extraction
\* meets in any vertical and horizontal order within a page.
OrderDoc(p) ==
    [els |-> <<Line("Project Plan", 24000, 100, 1, 0)>>
             \o [k \in 1..Len(p) |->
                    TextElement(p[k].text, 16000, "Helvetica", HelveticaBold,
                                HelveticaItalic, p[k].pos[2], p[k].pos[1], 12,
                                p[k].page, 0, k - 1)],
     page_count |-> 3]

OrderDocs ==
    {OrderDoc(p) :
        p \in {q \in ListsUpTo(MaxElems,
                               [page : {2, 3},
                                text : {"Overview", "2.1 Scope", "3.1.4 Detail"},
                                pos : {<<100, 72>>, <<200, 72>>, <<100, 300>>}]) :
                  PageOrdered(q)}}

\* Heading lines in up to eight sizes: three apart from one another, three
\* that the tolerance 0.5 brings into one cluster and two below them.
LevelDocs ==
    {ClusterDoc(S) :
        S \in SUBSET {24000, 20000, 16000, 12000, 11520, 11510, 11490, 11000}}

\* Lines of height 12 in one block of page 2, in one font and size: the first
\* at y0 = 100, the others at 113, 120, 126 or 140, which leaves gaps of 1, 8
\* and more points between a line and the next.
MergeDoc(p) ==
    [els |-> <<Line("Heading", 14000, 100, 2, 0)>>
             \o [k \in 1..Len(p) |-> Line("continued", 14000, p[k], 2, k)],
     page_count |-> 2]

MergeDocs == {MergeDoc(p) : p \in ListsUpTo(MaxElems, {113, 120, 126, 140})}

InitOutline ==
    \E v \in 1..3 :
        \E doc \in CoverDocs \cup OrderDocs \cup LevelDocs \cup MergeDocs :
            Start(v, doc, {})
SpecOutline == InitOutline /\ [][Next]_vars


MaxLen == 4

\* A title on page 1 and, on page 2, one line whose text is t.
NumberingDoc(t) ==
    [els |-> <<Line("Project Plan", 20000, 100, 1, 0), Line(t, 16000, 100, 2, 0)>>,
     page_count |-> 2]

\* Every text of at most MaxLen characters out of a digit, the period, the
\* space, the dash, the colon and a letter that extract_text_elements keeps
\* (a span whose text is blank makes no element).
InitNumbering ==
    \E v \in 1..3 :
        \E p \in ListsUpTo(MaxLen, {"1", ".", " ", "-", ":", "A"}) :
            /\ strip(JoinWith(p, "")) # ""
            /\ Start(v, NumberingDoc(JoinWith(p, "")), {})
SpecNumbering == InitNumbering /\ [][Next]_vars


-----------------------------------------------------------------------------
(* Properties *)

\* cluster_font_sizes has returned.
Clustered == pc \in {"assign", "assign_loop", "done"} \/ (ver = 2 /\ pc = "title")

\* The rounded font sizes of the elements that were clustered.
ObservedSizes == {Rounded(ver, heap[i].font_size) : i \in Range(text_els)}

\* C1: once cluster_font_sizes has returned, every observed rounded size lies
\* in exactly one cluster, every cluster is a non-empty set of observed sizes,
\* and the returned representatives are the cluster means in strictly
\* descending order.
C1_ClusterPartition ==
    Clustered =>
        /\ Len(font_clusters) = Len(absorbed)
        /\ \A x \in ObservedSizes :
              Cardinality({k \in 1..Len(absorbed) : x \in absorbed[k]}) = 1
        /\ \A k \in 1..Len(absorbed) :
              /\ absorbed[k] # {}
              /\ absorbed[k] \subseteq ObservedSizes
              /\ font_clusters[k] = mean(absorbed[k])
        /\ \A k \in 1..(Len(font_clusters) - 1) :
              RatLt(font_clusters[k + 1], font_clusters[k])

\* A run that returned several clusters, one of which absorbed several sizes.
C1_Witness ==
    /\ pc = "done"
    /\ Len(font_clusters) >= 2
    /\ \E k \in 1..Len(absorbed) : Cardinality(absorbed[k]) >= 2

\* Is c a letter ?
IsLetter(c) == IsUpper(c) \/ \E k \in 1..Len(LowerChars) : Ch(LowerChars, k) = c

\* The form "2.1 <words>": an integer, a period, an integer, a space, a word.
TwoSegForm(t) ==
    \E i \in 2..Len(t), j \in 4..Len(t) :
        /\ i + 1 < j
        /\ \A k \in 1..(i - 1) : IsDigit(Ch(t, k))
        /\ Ch(t, i) = "."
        /\ \A k \in (i + 1)..(j - 1) : IsDigit(Ch(t, k))
        /\ Ch(t, j) = " "
        /\ IsLetter(Ch(t, j + 1))

\* C2: every outline entry whose text has the form "2.1 <words>" has the level
\* H2, whatever the font size of its element and whatever the clusters are.
C2_NumberingOverride ==
    \A k \in 1..Len(outline) : TwoSegForm(outline[k].text) => outline[k].level = "H2"

\* An entry of that form was emitted as H2 although the size of its element is
\* the cluster that the level map gives H1.
C2_Witness ==
    /\ pc = "done"
    /\ \E k \in 1..Len(outline) :
          /\ TwoSegForm(outline[k].text)
          /\ outline[k].level = "H2"
          /\ levels # <<>>
          /\ levels[1].level = "H1"
          /\ levels[1].size = Rat(heap[emitted[k]].font_size, 1)

\* C3: for a ten-page document with "Confidential Draft" in the top margin of
\* eight pages, the returned title does not contain that text and no outline
\* entry has it.
C3_HeaderNotInResult ==
    (pc = "done" /\ page_count = 10) =>
        /\ ~Contains(result.title, "Confidential Draft")
        /\ \A k \in 1..Len(result.outline) :
              result.outline[k].text # "Confidential Draft"

\* The elements whose text detect_title selected as the title: main3 detects the
\* title on the raw elements, main1 and main2 on the list they keep afterwards.
TitleElements ==
    IF ver = 1
    THEN (IF FirstPage(text_els) = <<>> THEN {} ELSE {candidates1(text_els)[1]})
    ELSE IF ver = 2 THEN Range(top_candidates2(text_els))
    ELSE IF FirstPage(raw) = <<>> THEN {}
    ELSE IF title_parts3(raw) # <<>> THEN Range(title_parts3(raw))
    ELSE {title_candidates3(raw)[1]}

\* C4: a cluster that absorbed the font size of an element selected as the
\* title is not a key of the cluster-to-level map of assign_headings.
C4_TitleClusterUnmapped ==
    pc \in {"assign_loop", "done"} =>
        \A i \in TitleElements : \A k \in 1..Len(absorbed) :
            Rounded(ver, heap[i].font_size) \in absorbed[k] => ~InMap(levels, clusters[k])

C6_EmptyDocument ==
    heap = <<>> =>
        /\ pc # "raised"
        /\ pc = "done" => (result.title = "" /\ result.outline = <<>>)

\* C7: the second application of the stages to the same list of elements
\* returns the title and the outline of the first.
C7_Idempotent ==
    (pc = "done" /\ run = 2) => result = first

\* C8: the two-page scenario returns the title "Project Plan" and the outline
\* [H1 "1. Introduction" page 2, H2 "1.1 Background" page 2].
C8_TwoPageScenario ==
    (pc = "done" /\ page_count = 2 /\ heap # <<>> /\ heap[1].text = "Project Plan") =>
        /\ result.title = "Project Plan"
        /\ result.outline =
              <<[level |-> "H1", text |-> "1. Introduction", page |-> 2],
                [level |-> "H2", text |-> "1.1 Background", page |-> 2]>>

\* C9: the single-page scenario returns the title "Annual Report 2024" and an
\* empty outline.
C9_SinglePageScenario ==
    (pc = "done" /\ page_count = 1 /\ heap # <<>>
        /\ heap[1].text = "Annual Report 2024") =>
        /\ result.title = "Annual Report 2024"
        /\ result.outline = <<>>

\* The margin band of the element i.
Band(i) ==
    IF heap[i].y0 < y_threshold_top THEN "top"
    ELSE IF heap[i].y0 > y_threshold_bottom THEN "bottom"
    ELSE "body"

\* On how many distinct pages does the text of the element i occur in the band
\* of i ?
BandPages(i) ==
    Cardinality({heap[j].page_num :
                    j \in {m \in Range(raw) :
                              heap[m].text = heap[i].text /\ Band(m) = Band(i)}})

\* C10: remove_header_footer of main1 and main2 removes an element only if its
\* text occurs in the same band on more than 0.7 * page_count distinct pages,
\* and never a text that occurs in the band on one page only.
C10_RemovedOnlyIfFrequent ==
    (ver \in {1, 2} /\ pc = AfterRemove(ver)) =>
        \A i \in Range(raw) \ Range(text_els) :
            /\ freq_den * BandPages(i) > freq_num * page_count
            /\ BandPages(i) > 1

\* C11: once remove_header_footer has returned, no element that it kept has
\* the text of an element that it removed: a text classified as a header or a
\* footer is gone from the margin bands and from the body alike.
C11_RemovalCoversAll ==
    pc = AfterRemove(ver) =>
        \A i \in Range(raw) \ Range(text_els) :
            \A j \in Range(text_els) : heap[j].text # heap[i].text

\* C12: in main3, when every title candidate of page 1 is excluded (a string
\* of digits, or a text with "copyright" or "page" in it) the returned title is
\* the empty string, and the returned title is never the text of an excluded
\* candidate.
C12_NoExcludedTitle ==
    (ver = 3 /\ pc = "done") =>
        /\ (\A i \in Range(Candidates(raw, title_eps3)) : Excluded3(heap[i].text))
              => result.title = ""
        /\ \A i \in Range(Candidates(raw, title_eps3)) :
              Excluded3(heap[i].text) => result.title # heap[i].text

\* Is u made of exactly k runs of digits with single periods between them ?
IsSegments(u, k) ==
    /\ u # ""
    /\ \A j \in 1..Len(u) : IsDigit(Ch(u, j)) \/ Ch(u, j) = "."
    /\ IsDigit(Ch(u, 1)) /\ IsDigit(Ch(u, Len(u)))
    /\ \A j \in 1..(Len(u) - 1) : ~(Ch(u, j) = "." /\ Ch(u, j + 1) = ".")
    /\ Cardinality({j \in 1..Len(u) : Ch(u, j) = "."}) = k - 1

\* Does t start with exactly k segments that a separator follows: a space, a
\* dash, a colon, or a period and then a space ?
SegmentsThenSeparator(t, k) ==
    \E e \in 2..Len(t) :
        /\ IsSegments(SubSeq(t, 1, e - 1), k)
        /\ \/ Ch(t, e) \in {" ", "-", ":"}
           \/ Ch(t, e) = "." /\ Ch(t, e + 1) = " "

\* The reference of the Numbering Analyzer: the segment count, 0 for None.
NumberingReference(t) ==
    IF \E k \in 1..3 : SegmentsThenSeparator(t, k)
    THEN CHOOSE k \in 1..3 : SegmentsThenSeparator(t, k)
    ELSE 0

\* C13: find_numbering_level of every iteration returns the segment count
\* exactly for the texts that start with one to three dot-separated integer
\* segments followed by a separator, and None for every other text.
C13_NumberingReference ==
    \A i \in DOMAIN heap :
        find_numbering_level(ver, heap[i].text) = NumberingReference(strip(heap[i].text))

PlaceIn(els, i) == CHOOSE k \in 1..Len(els) : els[k] = i

\* Does the element i come before the element j in reading order: page, then
\* y0, then x0, and the order of the list for equal positions ?
ReadsBefore(i, j) ==
    \/ LexLt(<<heap[i].page_num, heap[i].y0, heap[i].x0>>,
             <<heap[j].page_num, heap[j].y0, heap[j].x0>>)
    \/ /\ heap[i].page_num = heap[j].page_num
       /\ heap[i].y0 = heap[j].y0
       /\ heap[i].x0 = heap[j].x0
       /\ PlaceIn(text_els, i) < PlaceIn(text_els, j)

\* C15: the outline is a subsequence of the elements in reading order: entry k
\* carries the text of one element, consecutive entries come from elements in
\* reading order (so none yields two entries), and the emitted page numbers do
\* not decrease.
C15_ReadingOrder ==
    /\ Len(outline) = Len(emitted)
    /\ \A k \in 1..Len(outline) :
          /\ emitted[k] \in Range(text_els)
          /\ outline[k].text = heap[emitted[k]].text
    /\ \A k \in 1..(Len(outline) - 1) :
          /\ ReadsBefore(emitted[k], emitted[k + 1])
          /\ outline[k].page <= outline[k + 1].page

\* A returned outline with two entries from one page whose elements the
\* extraction met in the opposite order.
C15_Witness ==
    /\ pc = "done"
    /\ \E k \in 1..(Len(emitted) - 1) :
          /\ heap[emitted[k]].page_num = heap[emitted[k + 1]].page_num
          /\ PlaceIn(text_els, emitted[k + 1]) < PlaceIn(text_els, emitted[k])

\* C16: in main1 and main2 the level map holds the three largest clusters that
\* are left after the title's is taken out, as H1, H2 and H3 in this order, and
\* no emitted entry comes from an element whose size was absorbed into the
\* fourth or a smaller one of these clusters.
C16_ThreeLevels ==
    (ver \in {1, 2} /\ pc \in {"assign_loop", "done"}) =>
        /\ Len(levels) <= 3
        /\ Len(levels) < 3 =>
              Len(levels) = Len(heading_font_sizes(ver, font_clusters, title_font_size))
        /\ \A k \in 1..Len(levels) :
              /\ levels[k].level = Tag(k)
              /\ levels[k].size =
                    SortRatsDesc(heading_font_sizes(ver, font_clusters, title_font_size))[k]
        /\ \A k \in 1..Len(emitted) : \A j \in 1..Len(absorbed) :
              Rounded(ver, heap[emitted[k]].font_size) \in absorbed[j] =>
                 \A n \in 4..Len(heading_font_sizes(ver, font_clusters, title_font_size)) :
                    clusters[j] #
                       SortRatsDesc(heading_font_sizes(ver, font_clusters, title_font_size))[n]

\* Are the lines s[a], ..., s[b] a run: each on the page and in the block of
\* the line before it, with its font, size and flags, its x0 within 2 points,
\* and starting more than 0 and less than 15 points below its bottom ?
IsRun(s, a, b) ==
    \A k \in (a + 1)..b :
        /\ heap[s[k]].page_num = heap[s[k - 1]].page_num
        /\ heap[s[k]].block_no = heap[s[k - 1]].block_no
        /\ heap[s[k]].font_name = heap[s[k - 1]].font_name
        /\ heap[s[k]].font_size = heap[s[k - 1]].font_size
        /\ heap[s[k]].is_bold = heap[s[k - 1]].is_bold
        /\ heap[s[k]].is_italic = heap[s[k - 1]].is_italic
        /\ Abs(heap[s[k]].x0 - heap[s[k - 1]].x0) < 2
        /\ 0 < heap[s[k]].y0 - (heap[s[k - 1]].y0 + heap[s[k - 1]].h)
        /\ heap[s[k]].y0 - (heap[s[k - 1]].y0 + heap[s[k - 1]].h) < 15

\* Do the lines behind the first of every run of three or more lines of the
\* list s have no place of their own in the list merged ?
RunsMerged(s, merged) ==
    \A a \in 1..Len(s) : \A b \in (a + 2)..Len(s) :
        IsRun(s, a, b) => \A k \in (a + 1)..b : s[k] \notin Range(merged)

\* C17: merge_multiline_blocks of main2 merges every run of three or more
\* consecutive lines into a single element: the lines of the run behind the
\* first are all absorbed.
C17_RunMerged ==
    [][(pc = "merge" /\ pc' = "cluster") =>
          RunsMerged(sorted(text_els, [i \in DOMAIN heap |->
                        <<heap[i].page_num, heap[i].block_no, heap[i].line_no>>]),
                     text_els')]_vars

\* C18: the while loop of cluster_font_sizes ends with sizes empty.  The
\* iterations made and the sizes left never exceed the number of distinct
\* rounded sizes; for every tolerance >= 0 an iteration takes the base out of
\* sizes; an iteration leaves fewer sizes and adds none; and every call of
\* cluster_font_sizes returns, with sizes empty.
C18_ClusteringTerminates ==
    /\ [](pc = "cluster_loop" =>
             Len(clusters) + Len(sizes) <= Cardinality(SizeSet(ver, text_els)))
    /\ []((pc = "cluster_loop" /\ sizes # <<>>) =>
             \A tol \in {0, 300, 500, 2000} :
                /\ sizes[1] \in ClusterAt(sizes, sizes[1], tol)
                /\ Len(Remaining(sizes, ClusterAt(sizes, sizes[1], tol))) < Len(sizes))
    /\ [][(pc = "cluster_loop" /\ pc' = "cluster_loop") =>
             (Len(sizes') < Len(sizes) /\ Range(sizes') \subseteq Range(sizes))]_vars
    /\ (pc = "cluster") ~> (pc = AfterCluster(ver) /\ sizes = <<>>)

\* cluster_font_sizes has returned after as many iterations as there are
\* distinct rounded sizes, three or more.
C18_Witness ==
    /\ pc = AfterCluster(ver)
    /\ Len(clusters) >= 3
    /\ Len(clusters) = Cardinality(SizeSet(ver, text_els))

\* C19: in main1 the cluster representative nearest to the font size of an
\* element is the representative of the cluster that absorbed the rounded
\* size of the element.
C19_NearestIsOwn ==
    (ver = 1 /\ pc \in {"assign_loop", "done"}) =>
        \A i \in Range(text_els) : \A j \in 1..Len(absorbed) :
            Rounded(1, heap[i].font_size) \in absorbed[j] =>
               font_clusters[Closest(font_clusters, heap[i].font_size)] = clusters[j]

====
